---- MODULE Spec2Model ----
(***************************************************************************)
(* A model of the RateGenius backend (src/unnamed/part_001): the in-memory *)
(* TTL cache, the per-host politeness throttle, the Playwright scraper     *)
(* with its retry wrapper, the /api/scan handler and the median-based      *)
(* /api/suggest handler.                                                   *)
(*                                                                         *)
(* Time is Date.now() in milliseconds.  Every await of the source is a     *)
(* step boundary; the code between two awaits is one atomic action, as it  *)
(* is on Node's single-threaded event loop.                                *)
(***************************************************************************)
EXTENDS Integers, Sequences, FiniteSets, TLC

VARIABLES
    clock,      \* Date.now()
    cache,      \* const cache = new Map(): key -> [value, exp]
    hostLock,   \* const hostLock = new Map(): host -> timestamp
    pc,         \* position of each in-flight call
    loc,        \* local variables of each in-flight call
    sessions,   \* the browser sessions that are open
    world,      \* what the external providers hold: the places around
    lastSet,    \* history: key -> the most recent setCache(key, ...) call
    done        \* history: host -> completion times of politeWaitForHost

vars == <<clock, cache, hostLock, pc, loc, sessions, world, lastSet, done>>

----------------------------------------------------------------------------
(* Bounds of the model *)

\* number of free clock ticks (time passing while the event loop is idle)
MaxTicks == 8

\* largest generic value stored by the cache exerciser
MaxValue == 2

\* largest explicit ttl (seconds) of the cache exerciser
MaxTtlSec == 2

\* largest numeric price and longest competitor list handed to suggest
MaxPrice == 3
MaxComps == 4

----------------------------------------------------------------------------
(* Program constants *)

\* const gap = 2000; // 2 seconds between requests to same host
gap == 2000

\* function setCache(key, value, ttlSec=3600)
DefaultTtlSec == 3600

\* one clock tick, a quarter of the politeness gap
TickMs == gap \div 4

\* Date.now() when the process starts: any instant later than `gap`
StartTime == 5 * gap

MaxClock == StartTime + MaxTicks * TickMs

Procs == {1, 2}

Hosts == {1, 2}

----------------------------------------------------------------------------
(* JavaScript values *)

Null == [t |-> "null"]
Undefined == [t |-> "undefined"]
NaN == [t |-> "nan"]
\* a number, kept exact as numerator / denominator
Frac(n, d) == [t |-> "num", n |-> n, d |-> d]
Num(n) == Frac(n, 1)
\* a string, as its sequence of characters
Str(chars) == [t |-> "str", s |-> chars]

Digits == <<"0", "1", "2", "3", "4", "5", "6", "7", "8", "9">>
IsDigit(c) == \E i \in 1..10 : Digits[i] = c
DigitVal(c) == (CHOOSE i \in 1..10 : Digits[i] = c) - 1

RECURSIVE DecimalValue(_)
DecimalValue(chars) ==
    IF chars = <<>> THEN 0
    ELSE 10 * DecimalValue(SubSeq(chars, 1, Len(chars) - 1))
            + DigitVal(chars[Len(chars)])

\* Number(v) for the values a JSON body carries in a price field: null is 0,
\* undefined is NaN, the empty string is 0, a digit string is its value and
\* any other string is NaN
ToNumber(v) ==
    CASE v.t = "num" -> v
      [] v.t = "null" -> Num(0)
      [] v.t = "undefined" -> NaN
      [] v.t = "nan" -> NaN
      [] v.t = "str" ->
            IF v.s = <<>> THEN Num(0)
            ELSE IF \A i \in 1..Len(v.s) : IsDigit(v.s[i])
                 THEN Num(DecimalValue(v.s))
                 ELSE NaN

\* the minimum of a non-empty set of numbers
Min(S) == CHOOSE x \in S : \A y \in S : x <= y

----------------------------------------------------------------------------
(* Strings and numbers of the location resolver *)

Abs(n) == IF n < 0 THEN -n ELSE n

\* the greatest common divisor of a >= 0 and b >= 0, not both 0
RECURSIVE Gcd(_, _)
Gcd(a, b) == IF b = 0 THEN a ELSE Gcd(b, a % b)

\* n/d in lowest terms, d > 0
Normalize(n, d) ==
    LET g == Gcd(Abs(n), d)
    IN  Frac(n \div g, d \div g)

\* the position after the run of digits that starts at position i
RECURSIVE DigitsEnd(_, _)
DigitsEnd(s, i) ==
    IF i <= Len(s) /\ IsDigit(s[i]) THEN DigitsEnd(s, i + 1) ELSE i

\* the value of F at the value of e: e is evaluated once
Once(F(_), e) == CHOOSE y \in {F(x) : x \in {e}} : TRUE

\* the position after a match of -?\d+\.\d+ at position i, 0 if none
NumEnd(s, i) ==
    LET a == IF i <= Len(s) /\ s[i] = "-" THEN i + 1 ELSE i
        AfterInt(b) ==
            LET AfterFrac(c) ==
                    IF b > a /\ b <= Len(s) /\ s[b] = "." /\ c > b + 1
                    THEN c ELSE 0
            IN  Once(AfterFrac, DigitsEnd(s, b + 1))
    IN  Once(AfterInt, DigitsEnd(s, a))

\* the position after a match of -?\d+(\.\d+)? at position i, 0 if none
NumEndLoose(s, i) ==
    LET a == IF i <= Len(s) /\ s[i] = "-" THEN i + 1 ELSE i
        b == DigitsEnd(s, a)
        c == DigitsEnd(s, b + 1)
    IN  IF b = a THEN 0
        ELSE IF b <= Len(s) /\ s[b] = "." /\ c > b + 1 THEN c
        ELSE b

\* a pattern that also takes whole numbers: /^-?\d+(\.\d+)?,-?\d+(\.\d+)?$/
IsLatLngLoose(s) ==
    LET e == NumEndLoose(s, 1)
    IN  /\ e # 0 /\ e <= Len(s) /\ s[e] = ","
        /\ NumEndLoose(s, e + 1) = Len(s) + 1

\* /^-?\d+\.\d+,-?\d+\.\d+$/.test(s)
IsLatLng(s) ==
    LET Rest(e) ==
            /\ e # 0 /\ e <= Len(s) /\ s[e] = ","
            /\ Once(LAMBDA j : NumEnd(s, j), e + 1) = Len(s) + 1
    IN  Once(Rest, NumEnd(s, 1))

\* Number(chars) for decimal literals -?\d+(\.\d+)?; NaN for other text
ParseNum(chars) ==
    LET a == IF Len(chars) >= 1 /\ chars[1] = "-" THEN 2 ELSE 1
        sign == IF a = 2 THEN -1 ELSE 1
        Whole(b) == Once(DecimalValue, SubSeq(chars, a, b - 1))
        AfterInt(b) ==
            LET AfterFrac(c) ==
                    IF b = a THEN NaN
                    ELSE IF b = Len(chars) + 1 THEN Num(sign * Whole(b))
                    ELSE IF chars[b] = "." /\ c > b + 1 /\ c = Len(chars) + 1
                         THEN Normalize(
                                sign * (Whole(b) * 10 ^ (c - b - 1)
                                        + Once(DecimalValue,
                                               SubSeq(chars, b + 1, c - 1))),
                                10 ^ (c - b - 1))
                    ELSE NaN
            IN  Once(AfterFrac, DigitsEnd(chars, b + 1))
    IN  Once(AfterInt, DigitsEnd(chars, a))

\* the decimal digits of a natural number
RECURSIVE NatChars(_)
NatChars(n) ==
    IF n < 10 THEN <<Digits[n + 1]>>
    ELSE NatChars(n \div 10) \o <<Digits[(n % 10) + 1]>>

\* the digits of n, zero-padded on the left to k places
RECURSIVE PadLeft(_, _)
PadLeft(chars, k) ==
    IF Len(chars) >= k THEN chars ELSE PadLeft(<<"0">> \o chars, k)

\* `${x}` for a number with a finite decimal expansion
FormatNum(x) ==
    LET k == CHOOSE j \in 0..6 :
                /\ (10 ^ j) % x.d = 0
                /\ \A i \in 0..(j - 1) : (10 ^ i) % x.d # 0
        m == (Abs(x.n) * 10 ^ k) \div x.d
    IN  (IF x.n < 0 THEN <<"-">> ELSE <<>>)
            \o NatChars(m \div 10 ^ k)
            \o (IF k = 0 THEN <<>>
                ELSE <<".">> \o PadLeft(NatChars(m % 10 ^ k), k))

\* the position of the first comma of s, Len(s) + 1 if it has none
RECURSIVE CommaAt(_, _)
CommaAt(s, i) ==
    IF i > Len(s) \/ s[i] = "," THEN i ELSE CommaAt(s, i + 1)

\* const [lat, lng] = latlng.split(',').map(Number)
SplitLatLng(s) ==
    LET Second(rest) == Once(ParseNum, SubSeq(rest, 1, CommaAt(rest, 1) - 1))
        Parts(c) ==
            [lat |-> Once(ParseNum, SubSeq(s, 1, c - 1)),
             lng |-> IF c > Len(s) THEN Undefined
                     ELSE Once(Second, SubSeq(s, c + 1, Len(s)))]
    IN  Once(Parts, CommaAt(s, 1))

----------------------------------------------------------------------------
(* The cache: setCache / getCache *)

\* cache.set(key, { value, exp: Date.now() + ttlSec*1000 })
SetCache(c, key, value, ttlSec, now) ==
    [k \in (DOMAIN c) \cup {key} |->
        IF k = key THEN [value |-> value, exp |-> now + ttlSec * 1000]
                   ELSE c[k]]

\* a getCache that never looks at the expiry
GetCacheValueNoExpiry(c, key, now) ==
    IF key \notin DOMAIN c THEN Null ELSE c[key].value

\* the value getCache(key) returns
GetCacheValue(c, key, now) ==
    IF key \notin DOMAIN c THEN Null
    ELSE IF now > c[key].exp THEN Null
    ELSE c[key].value

\* a getCache that sweeps every expired entry out of the store
GetCacheStoreSweep(c, key, now) ==
    [k \in {q \in DOMAIN c : now <= c[q].exp} |-> c[k]]

\* the store getCache(key) leaves behind: an expired entry is deleted
GetCacheStore(c, key, now) ==
    IF key \in DOMAIN c /\ now > c[key].exp
    THEN [k \in (DOMAIN c) \ {key} |-> c[k]]
    ELSE c

----------------------------------------------------------------------------
(* The politeness throttle: politeWaitForHost *)

\* a throttle that keeps one timestamp for all hosts
HostLastAnyHost(h) ==
    IF DOMAIN hostLock = {} THEN 0
    ELSE CHOOSE t \in {hostLock[g] : g \in DOMAIN hostLock} :
            \A g \in DOMAIN hostLock : hostLock[g] <= t

\* hostLock.get(host) || 0
HostLast(h) == IF h \in DOMAIN hostLock THEN hostLock[h] ELSE 0

\* hostLock.set(host, t)
HostSet(hl, h, t) == [g \in (DOMAIN hl) \cup {h} |-> IF g = h THEN t ELSE hl[g]]

\* a throttle that sleeps for the elapsed time instead of the remainder
WaitDelayElapsed(now, last) == now - last

\* the delay handed to setTimeout: gap - (now - last)
WaitDelay(now, last) == gap - (now - last)

\* history of completions: the last two completion times per host
DoneAdd(d, h, t) ==
    [g \in (DOMAIN d) \cup {h} |->
        IF g = h
        THEN [prev |-> IF h \in DOMAIN d THEN d[h].last ELSE -1, last |-> t]
        ELSE d[g]]

\* politeWaitForHost(host) up to its await: either it suspends on the timer
\* or it runs through to hostLock.set and returns to `retpc`; `base` holds
\* the caller's locals
PoliteEnter(r, h, retpc, base) ==
    LET last == HostLast(h)
        now == clock
    IN  IF now - last < gap
        THEN /\ pc' = [pc EXCEPT ![r] = "polite_sleep"]
             /\ loc' = [base EXCEPT ![r].host = h,
                                   ![r].wake = now + WaitDelay(now, last),
                                   ![r].susp = TRUE,
                                   ![r].retpc = retpc]
             /\ UNCHANGED <<hostLock, done>>
        ELSE /\ pc' = [pc EXCEPT ![r] = retpc]
             /\ loc' = [base EXCEPT ![r].host = h, ![r].wake = -1,
                                   ![r].susp = FALSE,
                                   ![r].retpc = retpc]
             /\ hostLock' = HostSet(hostLock, h, clock)
             /\ done' = DoneAdd(done, h, clock)

\* positions inside a run of synchronous code: no other callback runs and no
\* time passes until the running call reaches its next await
SyncPcs == {"nearby_lookup", "loop", "have_details", "scrape_enter",
            "attempt_start", "push"}

Busy == \E q \in Procs : pc[q] \in SyncPcs

\* the setTimeout callback fired: hostLock.set(host, Date.now())
PoliteWake(r) ==
    /\ ~Busy
    /\ pc[r] = "polite_sleep"
    /\ clock >= loc[r].wake
    /\ hostLock' = HostSet(hostLock, loc[r].host, clock)
    /\ done' = DoneAdd(done, loc[r].host, clock)
    /\ pc' = [pc EXCEPT ![r] = loc[r].retpc]
    /\ loc' = [loc EXCEPT ![r].wake = -1]
    /\ UNCHANGED <<sessions, world, clock, cache, lastSet>>

----------------------------------------------------------------------------
(* Time *)

\* the pending timers' deadlines
Deadlines ==
    {loc[r].wake :
        r \in {q \in Procs : pc[q] \in {"polite_sleep", "backoff_wait"}}}

\* Date.now() advances: by one tick while the horizon lasts, or to the next
\* timer deadline
Tick ==
    /\ ~Busy
    /\ \/ /\ clock < MaxClock
          /\ clock' = clock + TickMs
       \/ /\ \E d \in Deadlines : d > clock
          /\ clock' = Min({d \in Deadlines : d > clock})
    /\ UNCHANGED <<sessions, world, cache, hostLock, pc, loc, lastSet, done>>

----------------------------------------------------------------------------
(* Initial state: empty maps, no call in flight *)

Empty == [k \in {} |-> Null]

NoCalls == [geocode |-> 0, nearby |-> 0, details |-> 0, launch |-> 0]

LocInit == [host |-> 0, wake |-> -1, susp |-> FALSE, retpc |-> "off",
            op |-> "none", key |-> <<>>, ret |-> Null, at |-> 0,
            competitors |-> <<>>, arr |-> <<>>, resp |-> Null,
            \* /api/scan and scrapeSiteForPrice
            address |-> Undefined, latlng |-> <<>>, places |-> <<>>,
            i |-> 0, results |-> <<>>, details |-> Null, website |-> Null,
            scraped |-> Null, attempt |-> 0, result |-> Null,
            \* history of the call
            calls |-> NoCalls, geo |-> "none", tries |-> 0, fails |-> 0,
            oks |-> 0, opened |-> 0, failedAt |-> {}, near |-> Null,
            noRecord |-> {}, waited |-> {}, launched |-> {}, nav |-> Empty,
            launchedLive |-> FALSE]

\* no provider data is needed where no scan runs
NoWorld == [places |-> <<>>, faulty |-> {}]

InitMaps ==
    /\ cache = Empty
    /\ hostLock = Empty
    /\ sessions = {}
    /\ lastSet = Empty
    /\ done = Empty

----------------------------------------------------------------------------
(* Exercising politeWaitForHost: calls issued one after another *)

InitThrottle ==
    /\ InitMaps
    /\ clock = StartTime
    /\ world = NoWorld
    /\ pc = [r \in Procs |-> IF r = 1 THEN "idle" ELSE "off"]
    /\ loc = [r \in Procs |-> LocInit]

\* await politeWaitForHost(h); calls are issued while the horizon lasts
WaitForHost(r, h) ==
    /\ pc[r] = "idle"
    /\ clock <= MaxClock
    /\ PoliteEnter(r, h, "returned", loc)
    /\ UNCHANGED <<sessions, world, clock, cache, lastSet>>

\* the caller continues after the await
Returned(r) ==
    /\ pc[r] = "returned"
    /\ pc' = [pc EXCEPT ![r] = "idle"]
    /\ UNCHANGED <<sessions, world, clock, cache, hostLock, loc, lastSet, done>>

NextThrottle ==
    \/ \E r \in Procs, h \in Hosts : WaitForHost(r, h)
    \/ \E r \in Procs : PoliteWake(r)
    \/ \E r \in Procs : Returned(r)
    \/ Tick

SpecThrottle == InitThrottle /\ [][NextThrottle]_vars

\* the entry of host g is the same before and after the step
HostEntryKept(g) ==
    /\ (g \in DOMAIN hostLock') = (g \in DOMAIN hostLock)
    /\ g \in DOMAIN hostLock => hostLock'[g] = hostLock[g]

\* C3: when politeWaitForHost calls are issued one after another, two
\* consecutive completions for the same host are at least 2000 ms apart.
C3_SequentialGap ==
    \A h \in DOMAIN done :
        done[h].prev >= 0 => done[h].last - done[h].prev >= gap

\* a second call for a host was suspended and completed exactly one gap
\* after the first
C3_Witness ==
    \E h \in DOMAIN done :
        /\ done[h].prev >= 0
        /\ done[h].last - done[h].prev = gap
        /\ pc[1] = "returned" /\ loc[1].susp /\ loc[1].host = h

\* C9: a politeWaitForHost(h) call whose host has no recorded request, or a
\* recorded request at least 2000 ms old, returns without suspension
\* whatever the other hosts' timestamps are, and a call changes the
\* recorded timestamp of no host but its own.
C9_OtherHostsNoDelay ==
    [][\A r \in Procs :
        /\ (pc[r] = "idle" /\ pc'[r] # "idle") =>
              /\ (loc'[r].host \notin DOMAIN hostLock
                    \/ clock - hostLock[loc'[r].host] >= gap)
                  => /\ pc'[r] = "returned"
                     /\ ~loc'[r].susp
                     /\ hostLock'[loc'[r].host] = clock
              /\ \A g \in Hosts \ {loc'[r].host} : HostEntryKept(g)
        /\ (pc[r] = "polite_sleep" /\ pc'[r] # "polite_sleep") =>
              \A g \in Hosts \ {loc[r].host} : HostEntryKept(g)
      ]_vars

\* a call returned without suspension while another host had a request
\* less than one gap old
C9_Witness ==
    /\ pc[1] = "returned" /\ ~loc[1].susp
    /\ hostLock[loc[1].host] = clock
    /\ \E g \in DOMAIN hostLock :
          g # loc[1].host /\ clock - hostLock[g] < gap /\ hostLock[g] < clock

----------------------------------------------------------------------------
(* Exercising politeWaitForHost: two requests in flight at once *)

\* both requests issue politeWaitForHost calls, each one after another; a
\* call of one request may be issued while a call of the other is suspended
InitOverlap ==
    /\ InitMaps
    /\ clock = StartTime
    /\ world = NoWorld
    /\ pc = [r \in Procs |-> "idle"]
    /\ loc = [r \in Procs |-> LocInit]

SpecOverlap == InitOverlap /\ [][NextThrottle]_vars

\* C15 (as claimed): also when the politeWaitForHost calls of two requests
\* for one host overlap, any two completions for that host are at least
\* 2000 ms apart.
C15_OverlappingGap ==
    \A h \in Hosts :
        (h \in DOMAIN done /\ done[h].prev # -1) =>
            done[h].prev + gap <= done[h].last

----------------------------------------------------------------------------
(* Exercising the cache: any sequence of setCache, getCache, clock advances *)

CacheKeys == {<<"k", i>> : i \in 1..2}

InitCache ==
    /\ InitMaps
    /\ clock = StartTime
    /\ world = NoWorld
    /\ pc = [r \in Procs |-> IF r = 1 THEN "cache_idle" ELSE "off"]
    /\ loc = [r \in Procs |-> LocInit]

\* setCache(k, v, ttl), or setCache(k, v) with the default ttl
CacheSetCall(r, k, v, ttl) ==
    /\ pc[r] = "cache_idle"
    /\ cache' = SetCache(cache, k, Num(v), ttl, clock)
    /\ lastSet' = [q \in (DOMAIN lastSet) \cup {k} |->
                      IF q = k THEN [value |-> Num(v), at |-> clock, ttl |-> ttl]
                               ELSE lastSet[q]]
    /\ loc' = [loc EXCEPT ![r].op = "set", ![r].key = k, ![r].ret = Undefined,
                          ![r].at = clock]
    /\ UNCHANGED <<sessions, world, clock, hostLock, pc, done>>

\* getCache(k)
CacheGetCall(r, k) ==
    /\ pc[r] = "cache_idle"
    /\ cache' = GetCacheStore(cache, k, clock)
    /\ loc' = [loc EXCEPT ![r].op = "get", ![r].key = k,
                          ![r].ret = GetCacheValue(cache, k, clock),
                          ![r].at = clock]
    /\ UNCHANGED <<sessions, world, clock, hostLock, pc, lastSet, done>>

NextCache ==
    \/ \E r \in Procs, k \in CacheKeys, v \in 1..MaxValue,
          ttl \in (1..MaxTtlSec) \cup {DefaultTtlSec} : CacheSetCall(r, k, v, ttl)
    \/ \E r \in Procs, k \in CacheKeys : CacheGetCall(r, k)
    \/ Tick

SpecCache == InitCache /\ [][NextCache]_vars

\* C5: getCache(k) returns a value only if the most recent setCache for k
\* stored that value and the time of the call is not past set time + ttl;
\* otherwise it returns null.
C5_GetReturnsLive ==
    \A r \in Procs :
        loc[r].op = "get" =>
            LET k == loc[r].key
            IN  loc[r].ret =
                  IF /\ k \in DOMAIN lastSet
                     /\ loc[r].at <= lastSet[k].at + lastSet[k].ttl * 1000
                  THEN lastSet[k].value
                  ELSE Null

\* getCache answered null for a key that was set, after its expiry, and the
\* other key still holds a live entry
C5_Witness ==
    /\ loc[1].op = "get"
    /\ loc[1].key \in DOMAIN lastSet
    /\ loc[1].ret = Null
    /\ \E k \in DOMAIN cache : k # loc[1].key /\ clock <= cache[k].exp

\* C14: a getCache(k) that finds an expired entry returns null and removes
\* exactly that entry, so the store has one entry less; a getCache that
\* finds an unexpired entry or none leaves the store as it was; no getCache
\* changes the entry of another key.
C14_GetRemovesOnlyExpired ==
    [][\A r \in Procs :
        (loc'[r].op = "get" /\ clock' = clock /\ lastSet' = lastSet) =>
            LET k == loc'[r].key
            IN  /\ \A q \in (DOMAIN cache) \ {k} :
                      q \in DOMAIN cache' /\ cache'[q] = cache[q]
                /\ DOMAIN cache' \subseteq DOMAIN cache
                /\ IF /\ k \in DOMAIN cache
                      /\ clock > lastSet[k].at + lastSet[k].ttl * 1000
                   THEN /\ loc'[r].ret = Null
                        /\ k \notin DOMAIN cache'
                        /\ Cardinality(DOMAIN cache')
                              = Cardinality(DOMAIN cache) - 1
                   ELSE cache' = cache
      ]_vars

\* getCache has just removed the expired entry of its key, and the entry of
\* the other key, expired as well, is still in the store
C14_Witness ==
    /\ loc[1].op = "get" /\ loc[1].at = clock
    /\ loc[1].ret = Null
    /\ loc[1].key \in DOMAIN lastSet
    /\ loc[1].key \notin DOMAIN cache
    /\ clock > lastSet[loc[1].key].at + lastSet[loc[1].key].ttl * 1000
    /\ \E q \in DOMAIN cache : clock > cache[q].exp

----------------------------------------------------------------------------
(* The aggregator: median and /api/suggest *)

\* numbers are compared by value: n1/d1 <= n2/d2
Leq(a, b) == a.n * b.d <= b.n * a.d

\* insertion of x into an ascending list, after the elements equal to it
RECURSIVE Insert(_, _)
Insert(x, s) ==
    IF s = <<>> THEN <<x>>
    ELSE IF Leq(s[1], x) THEN <<s[1]>> \o Insert(x, Tail(s))
    ELSE <<x>> \o s

\* sort((a,b)=>a-b): ascending, stable
RECURSIVE SortAsc(_)
SortAsc(s) ==
    IF s = <<>> THEN <<>>
    ELSE Insert(s[Len(s)], SortAsc(SubSeq(s, 1, Len(s) - 1)))

\* a sort that works on the caller's array
SortInPlace(arr) == [s |-> SortAsc(arr), arr |-> SortAsc(arr)]

\* arr.slice().sort(...): the sorted copy s, and the caller's array after it
SliceSort(arr) == [s |-> SortAsc(arr), arr |-> arr]

\* (a + b) / 2
Mean2(a, b) == Normalize(a.n * b.d + b.n * a.d, 2 * a.d * b.d)

\* a median that takes the upper middle element of an even-length list
MedianOfUpper(s) ==
    IF Len(s) = 0 THEN Null ELSE s[(Len(s) \div 2) + 1]

\* const m = Math.floor(s.length/2);
\* return s.length%2 ? s[m] : (s[m-1]+s[m])/2;      (s is 0-based there)
MedianOf(s) ==
    IF Len(s) = 0 THEN Null
    ELSE LET m == Len(s) \div 2
         IN  IF Len(s) % 2 = 1 THEN s[m + 1] ELSE Mean2(s[m], s[m + 1])

\* median(arr): its result, and arr as the call leaves it
median(arr) ==
    LET ss == SliceSort(arr)
    IN  [value |-> MedianOf(ss.s), arr |-> ss.arr]

\* c.price, undefined when the record has no such field
PriceOf(c) == IF "price" \in DOMAIN c THEN c.price ELSE Undefined

\* .filter(p=>!Number.isNaN(p))
RECURSIVE FilterNotNaN(_)
FilterNotNaN(s) ==
    IF s = <<>> THEN <<>>
    ELSE (IF s[1].t # "nan" THEN <<s[1]>> ELSE <<>>) \o FilterNotNaN(Tail(s))

\* (competitors||[]).map(c => Number(c.price)).filter(p=>!Number.isNaN(p))
PricesOf(competitors) ==
    FilterNotNaN([i \in 1..Len(competitors) |->
                    ToNumber(PriceOf(competitors[i]))])

\* Math.round((med * (1 - alpha)) * 100) / 100 with alpha = 0.06, as a
\* number of cents over 100; Math.round(x) is floor(x + 1/2)
Recommended(med) ==
    Frac((2 * 94 * med.n + med.d) \div (2 * med.d), 100)

\* the response of POST /api/suggest
SuggestResponse(competitors) ==
    LET prices == PricesOf(competitors)
        med == median(prices).value
    IN  IF med = Null
        THEN [status |-> 400,
              body |-> [error |-> "no competitor prices available"]]
        ELSE [status |-> 200,
              body |-> [recommendedPrice |-> Recommended(med),
                        median |-> med,
                        confidence |-> Frac(6, 10)]]

\* the price values a request body may carry
JsPrices ==
    {Num(n) : n \in 1..MaxPrice}
        \cup {Null, Undefined, Str(<<>>), Str(<<"a", "b", "c">>), Str(<<"2">>)}

\* competitor records: a price field of any kind, or an inline error entry
CompetitorInputs ==
    {[price |-> v] : v \in JsPrices}
        \cup {[name |-> "n", address |-> "a", error |-> "e"]}

RECURSIVE SeqsUpTo(_, _)
SeqsUpTo(S, n) ==
    IF n = 0 THEN {<<>>}
    ELSE LET shorter == SeqsUpTo(S, n - 1)
         IN  shorter \cup {Append(q, x) : q \in {p \in shorter : Len(p) = n - 1},
                                           x \in S}

\* a body whose competitors carry the prices 100, 120 and 110
PriceList == <<[price |-> Num(100)], [price |-> Num(120)],
               [price |-> Num(110)]>>

InitSuggest ==
    /\ InitMaps
    /\ clock = StartTime
    /\ world = NoWorld
    /\ pc = [r \in Procs |-> IF r = 1 THEN "suggest_idle" ELSE "off"]
    /\ \E cs \in SeqsUpTo(CompetitorInputs, MaxComps) \cup {PriceList} :
          loc = [r \in Procs |->
                   IF r = 1 THEN [LocInit EXCEPT !.competitors = cs]
                   ELSE LocInit]

\* app.post('/api/suggest'): the handler has no await, it is one step
Suggest(r) ==
    /\ pc[r] = "suggest_idle"
    /\ pc' = [pc EXCEPT ![r] = "suggest_done"]
    /\ loc' = [loc EXCEPT ![r].resp = SuggestResponse(loc[r].competitors)]
    /\ UNCHANGED <<sessions, world, clock, cache, hostLock, lastSet, done>>

\* median(arr) called on the numeric prices of the list
MedianCall(r) ==
    /\ pc[r] = "suggest_idle"
    /\ pc' = [pc EXCEPT ![r] = "median_done"]
    /\ LET arr == PricesOf(loc[r].competitors)
           res == median(arr)
       IN  loc' = [loc EXCEPT ![r].op = "median", ![r].key = arr,
                              ![r].ret = res.value, ![r].arr = res.arr]
    /\ UNCHANGED <<sessions, world, clock, cache, hostLock, lastSet, done>>

NextSuggest ==
    \/ \E r \in Procs : Suggest(r)
    \/ \E r \in Procs : MedianCall(r)

SpecSuggest == InitSuggest /\ [][NextSuggest]_vars

\* a record carries a valid numeric price: a number, or a string of digits
HasNumericPrice(c) ==
    LET v == PriceOf(c)
    IN  \/ v.t = "num"
        \/ v.t = "str" /\ v.s # <<>> /\ \A i \in 1..Len(v.s) : IsDigit(v.s[i])

\* C2: when no record of the competitor list has a valid numeric price (the
\* list is empty, or every price is null, absent or non-numeric), suggest
\* answers with the 400 insufficient-data error and no recommended price.
C2_NoPriceIsError ==
    \A r \in Procs :
        (/\ pc[r] = "suggest_done"
         /\ \A i \in 1..Len(loc[r].competitors) :
               ~HasNumericPrice(loc[r].competitors[i]))
        => /\ loc[r].resp.status = 400
           /\ "recommendedPrice" \notin DOMAIN loc[r].resp.body

\* the number of elements of arr below x, and above x
CountBelow(arr, x) == Cardinality({i \in 1..Len(arr) : ~Leq(x, arr[i])})
CountAbove(arr, x) == Cardinality({i \in 1..Len(arr) : ~Leq(arr[i], x)})

\* x is the k-th element of the ascending order of arr
IsKth(arr, k, x) ==
    /\ \E i \in 1..Len(arr) : arr[i] = x
    /\ CountBelow(arr, x) <= k - 1
    /\ CountAbove(arr, x) <= Len(arr) - k

\* C10: median returns null for an empty list; for a non-empty list it
\* returns the middle element of the ascending order when the count is odd
\* and the arithmetic mean of the two middle elements when it is even; the
\* input list is left as it was.
C10_Median ==
    \A r \in Procs :
        loc[r].op = "median" =>
            LET arr == loc[r].key
                n == Len(arr)
                res == loc[r].ret
            IN  /\ loc[r].arr = arr
                /\ n = 0 => res = Null
                /\ (n > 0 /\ n % 2 = 1) => IsKth(arr, (n + 1) \div 2, res)
                /\ (n > 0 /\ n % 2 = 0) =>
                      \E i, j \in 1..n :
                          /\ IsKth(arr, n \div 2, arr[i])
                          /\ IsKth(arr, (n \div 2) + 1, arr[j])
                          /\ res.t = "num"
                          /\ 2 * res.n * arr[i].d * arr[j].d
                                = res.d * (arr[i].n * arr[j].d
                                            + arr[j].n * arr[i].d)

\* median was applied to an unsorted list of four prices whose two middle
\* elements have a fractional mean
C10_Witness ==
    /\ loc[1].op = "median"
    /\ Len(loc[1].key) = 4
    /\ \E i \in 1..3 : ~Leq(loc[1].key[i], loc[1].key[i + 1])
    /\ loc[1].ret.d = 2

\* the numeric values of the records that carry a valid numeric price
RECURSIVE ValidPrices(_)
ValidPrices(cs) ==
    IF cs = <<>> THEN <<>>
    ELSE (IF HasNumericPrice(cs[1]) THEN <<ToNumber(PriceOf(cs[1]))>> ELSE <<>>)
            \o ValidPrices(Tail(cs))

\* x is a whole number of cents and no other one is nearer to 0.94 * m
IsRounded94(x, m) ==
    /\ x.t = "num"
    /\ (x.n * 100) % x.d = 0
    /\ 2 * Abs(100 * x.n * m.d - 94 * m.n * x.d) <= m.d * x.d

\* C11 (as claimed): for every input with at least one valid numeric price,
\* suggest answers with recommendedPrice equal to the median of the valid
\* prices times 0.94, rounded to 2 decimal places, and confidence 0.6; for
\* the prices [100, 120, 110] it answers 103.4.
C11_RecommendedFromValidPrices ==
    \A r \in Procs :
        (/\ pc[r] = "suggest_done"
         /\ ValidPrices(loc[r].competitors) # <<>>)
        => /\ loc[r].resp.status = 200
           /\ IsRounded94(loc[r].resp.body.recommendedPrice,
                          MedianOf(SortAsc(ValidPrices(loc[r].competitors))))
           /\ loc[r].resp.body.confidence = Frac(6, 10)
           /\ loc[r].competitors = PriceList =>
                 loc[r].resp.body.recommendedPrice = Frac(10340, 100)

\* the list without the records whose price is null or absent
RECURSIVE WithoutUnpriced(_)
WithoutUnpriced(cs) ==
    IF cs = <<>> THEN <<>>
    ELSE (IF PriceOf(cs[1]).t \in {"null", "undefined"} THEN <<>>
          ELSE <<cs[1]>>)
            \o WithoutUnpriced(Tail(cs))

\* C17 (as claimed): the recommendation depends only on the records with a
\* valid numeric price: the answer to a list is the answer to the same list
\* without its records whose price is null or absent.
C17_UnpricedRecordsIgnored ==
    \A r \in Procs :
        pc[r] = "suggest_done" =>
            LET other == SuggestResponse(WithoutUnpriced(loc[r].competitors))
            IN  other.status = 200 =>
                    /\ loc[r].resp.status = 200
                    /\ loc[r].resp.body.recommendedPrice
                          = other.body.recommendedPrice

----------------------------------------------------------------------------
(* The external providers *)

\* the websites the place-details provider knows: 0 is not a parsable URL,
\* 1 and 2 are pages of one host, 3 is a page of another host
Urls == 0..3
ValidUrl(u) == u # 0
\* new URL(url).host
HostOf(u) == IF u = 3 THEN 2 ELSE 1
Url(u) == [t |-> "url", id |-> u]

\* the i-th place of the provider's nearby-search result
Place(i) == [place_id |-> i, name |-> <<"name", i>>,
             address |-> <<"vicinity", i>>]

ProviderList(n) == [i \in 1..n |-> Place(i)]

\* results[0].geometry.location of the geocoding provider
GeoLoc == [lat |-> Frac(9, 4), lng |-> Num(-75)]

\* what the place-details call for the i-th candidate may answer: the fetch
\* rejects, the provider has no record, or a record with or without website
DetailOutcomes(i) ==
    IF i \in world.faulty
    THEN {[kind |-> "reject"], [kind |-> "none"]}
            \cup {[kind |-> "ok", website |-> w] :
                    w \in {Null} \cup {Url(u) : u \in Urls}}
    ELSE {[kind |-> "ok", website |-> Null]}

\* request bodies: address absent, empty, "1.5,-2.25", "40,-75", "Main"
AddrCoord == <<"1", ".", "5", ",", "-", "2", ".", "2", "5">>
AddrInts == <<"4", "0", ",", "-", "7", "5">>
AddrText == <<"M", "a", "i", "n">>
RequestAddresses ==
    {Undefined, Str(<<>>), Str(AddrCoord), Str(AddrInts), Str(AddrText)}

----------------------------------------------------------------------------
(* /api/scan: placesNearby, placeDetails, scrapeSiteForPrice *)

\* a retry wrapper that grants one retry more
RetriesOneMore == 2 + 1

\* retries: 2 of the pRetry options
Retries == 2

\* the first retry delay of p-retry, in ms; factor: 1.5 multiplies it
RetryMinTimeout == 1000
RetryDelay(k) == (RetryMinTimeout * 3 ^ (k - 1)) \div 2 ^ (k - 1)

\* places.slice(0, 20)
ScanLimit == 20

\* a scan that walks the whole list
SliceAll(places) == places

\* places.slice(0, 20)
Slice(places) == SubSeq(places, 1, Min({ScanLimit, Len(places)}))

\* radius || 10, in miles
DefaultRadius == 10

\* Math.min(40000, Number(radiusMiles) * 1609.34)
RadiusMeters(miles) ==
    LET m == Normalize(miles * 160934, 100)
    IN  IF Leq(Num(40000), m) THEN Num(40000) ELSE m

\* `places:${lat}:${lng}:${radiusMeters}`
PlacesKey(latlng) ==
    LET ll == SplitLatLng(latlng)
    IN  <<"places", <<ll.lat, ll.lng, RadiusMeters(DefaultRadius)>>>>

\* `placedetail:${placeId}`
DetailKey(id) == <<"placedetail", id>>

\* `scrape:${url}`
ScrapeKey(u) == <<"scrape", u>>

\* scraped = { error: 'scrape failed' }
ScrapeFailed == [error |-> "scrape failed"]

\* scraped && scraped.f
ScrapedField(scraped, f) ==
    IF scraped = Null THEN Null
    ELSE IF f \in DOMAIN scraped THEN scraped[f]
    ELSE Undefined

\* the record pushed for a candidate whose detail lookup did not throw
Entry(p, details, website, scraped) ==
    [name |-> p.name,
     address |-> IF details # Null THEN details.formatted_address
                 ELSE p.address,
     place_id |-> p.place_id,
     website |-> website,
     distance |-> Null,
     unit |-> ScrapedField(scraped, "unit"),
     price |-> ScrapedField(scraped, "price"),
     source |-> IF website # Null THEN "website" ELSE "places",
     availability |-> ScrapedField(scraped, "availability")]

\* results.push({ name: p.name, address: p.address, error: e.message })
ErrorEntry(p, msg) == [name |-> p.name, address |-> p.address, error |-> msg]

\* { price, unit, source: url } as the heuristics read it off the page: a
\* page with a "$89 ... 10x10" text, or a page with no such text
PageResult(kind, u) ==
    [t |-> "scrape",
     price |-> IF kind = "priced" THEN Num(89) ELSE Null,
     unit |-> IF kind = "priced" THEN Str(<<"1", "0", "x", "1", "0">>)
              ELSE Null,
     source |-> Url(u)]

\* a catch block that does not close the browser
CatchCloseSkipped(ss, id) == ss

\* catch(err){ try{ await browser.close(); }catch(e){} throw err; }
CatchClose(ss, id) == ss \ {id}

\* await browser.close() on the success path
CloseSession(ss, id) == ss \ {id}

\* a resolver that falls back to the raw address when geocoding fails
AfterGeocodeFallback(out, address) ==
    IF out = "ok"
    THEN [throw |-> FALSE,
          latlng |-> FormatNum(GeoLoc.lat) \o <<",">> \o FormatNum(GeoLoc.lng)]
    ELSE [throw |-> FALSE, latlng |-> address]

\* placesNearby after the geocoding fetch: the fetch rejected, the provider
\* returned zero results ('geocode failed'), or latlng = `${loc.lat},${loc.lng}`
AfterGeocode(out, address) ==
    IF out = "reject" THEN [throw |-> TRUE, msg |-> "fetch failed"]
    ELSE IF out = "zero" THEN [throw |-> TRUE, msg |-> "geocode failed"]
    ELSE [throw |-> FALSE,
          latlng |-> FormatNum(GeoLoc.lat) \o <<",">> \o FormatNum(GeoLoc.lng)]

\* catch(err){ res.status(500).json({ error: err.message }) }
Fail500(r, msg, base) ==
    /\ pc' = [pc EXCEPT ![r] = "scan_done"]
    /\ loc' = [base EXCEPT ![r].resp =
                  [status |-> 500, body |-> [error |-> msg]]]

\* the handler up to its first await
ScanStart(r) ==
    /\ ~Busy
    /\ pc[r] = "scan_idle"
    /\ LET a == loc[r].address
       IN  IF a = Undefined \/ a = Str(<<>>)
           THEN /\ pc' = [pc EXCEPT ![r] = "scan_done"]
                /\ loc' = [loc EXCEPT ![r].resp =
                              [status |-> 400,
                               body |-> [error |-> "address required"]]]
           ELSE IF ~IsLatLng(a.s)
           THEN /\ pc' = [pc EXCEPT ![r] = "geocode_wait"]
                /\ loc' = [loc EXCEPT ![r].calls.geocode = @ + 1]
           ELSE /\ pc' = [pc EXCEPT ![r] = "nearby_lookup"]
                /\ loc' = [loc EXCEPT ![r].latlng = a.s]
    /\ UNCHANGED <<clock, cache, hostLock, sessions, world, lastSet, done>>

\* the geocoding fetch settled
GeocodeReturns(r, out) ==
    /\ ~Busy
    /\ pc[r] = "geocode_wait"
    /\ LET g == AfterGeocode(out, loc[r].address.s)
           base == [loc EXCEPT ![r].geo = out]
       IN  IF g.throw
           THEN Fail500(r, g.msg, base)
           ELSE /\ pc' = [pc EXCEPT ![r] = "nearby_lookup"]
                /\ loc' = [base EXCEPT ![r].latlng = g.latlng]
    /\ UNCHANGED <<clock, cache, hostLock, sessions, world, lastSet, done>>

\* placesNearby from the split of latlng to the nearby-search fetch
NearbyLookup(r) ==
    /\ pc[r] = "nearby_lookup"
    /\ LET key == PlacesKey(loc[r].latlng)
           cached == GetCacheValue(cache, key, clock)
       IN  /\ cache' = GetCacheStore(cache, key, clock)
           /\ IF cached # Null
              THEN /\ pc' = [pc EXCEPT ![r] = "loop"]
                   /\ loc' = [loc EXCEPT ![r].places = cached.list,
                                         ![r].i = 1, ![r].results = <<>>,
                                         ![r].near = SplitLatLng(loc[r].latlng)]
              ELSE /\ pc' = [pc EXCEPT ![r] = "nearby_wait"]
                   /\ loc' = [loc EXCEPT ![r].calls.nearby = @ + 1,
                                         ![r].near = SplitLatLng(loc[r].latlng)]
    /\ UNCHANGED <<clock, hostLock, sessions, world, lastSet, done>>

\* the nearby-search fetch settled
NearbyReturns(r, out) ==
    /\ ~Busy
    /\ pc[r] = "nearby_wait"
    /\ IF out = "reject"
       THEN Fail500(r, "fetch failed", loc) /\ UNCHANGED cache
       ELSE IF out = "malformed"
       THEN Fail500(r, "places API failed", loc) /\ UNCHANGED cache
       ELSE /\ cache' = SetCache(cache, PlacesKey(loc[r].latlng),
                                 [t |-> "places", list |-> world.places],
                                 6 * 3600, clock)
            /\ pc' = [pc EXCEPT ![r] = "loop"]
            /\ loc' = [loc EXCEPT ![r].places = world.places,
                                  ![r].i = 1, ![r].results = <<>>]
    /\ UNCHANGED <<clock, hostLock, sessions, world, lastSet, done>>

\* the head of for(const p of places.slice(0, 20)) and placeDetails up to its
\* fetch; after the last candidate, res.json({ competitors: results })
Loop(r) ==
    /\ pc[r] = "loop"
    /\ LET list == Slice(loc[r].places)
       IN  IF loc[r].i > Len(list)
           THEN /\ pc' = [pc EXCEPT ![r] = "scan_done"]
                /\ loc' = [loc EXCEPT ![r].resp =
                              [status |-> 200,
                               body |-> [competitors |-> loc[r].results]]]
                /\ UNCHANGED cache
           ELSE LET key == DetailKey(list[loc[r].i].place_id)
                    cached == GetCacheValue(cache, key, clock)
                IN  /\ cache' = GetCacheStore(cache, key, clock)
                    /\ IF cached # Null
                       THEN /\ pc' = [pc EXCEPT ![r] = "have_details"]
                            /\ loc' = [loc EXCEPT ![r].details = cached]
                       ELSE /\ pc' = [pc EXCEPT ![r] = "details_wait"]
                            /\ loc' = [loc EXCEPT ![r].calls.details = @ + 1]
    /\ UNCHANGED <<clock, hostLock, sessions, world, lastSet, done>>

\* a placeDetails that throws when the provider has no record
NoResultThrows == [throw |-> TRUE, msg |-> "no details"]

\* if(!res.result) return null;
NoResult == [throw |-> FALSE, value |-> Null]

\* the place-details fetch settled
DetailsReturns(r, out) ==
    /\ ~Busy
    /\ pc[r] = "details_wait"
    /\ LET p == Slice(loc[r].places)[loc[r].i]
       IN  IF out.kind = "reject"
           THEN /\ pc' = [pc EXCEPT ![r] = "loop"]
                /\ loc' = [loc EXCEPT
                              ![r].results = Append(@, ErrorEntry(p, "fetch failed")),
                              ![r].i = @ + 1]
                /\ UNCHANGED cache
           ELSE IF out.kind = "none"
           THEN /\ IF NoResult.throw
                   THEN /\ pc' = [pc EXCEPT ![r] = "loop"]
                        /\ loc' = [loc EXCEPT
                                      ![r].results =
                                          Append(@, ErrorEntry(p, NoResult.msg)),
                                      ![r].noRecord = @ \cup {loc[r].i},
                                      ![r].i = @ + 1]
                   ELSE /\ pc' = [pc EXCEPT ![r] = "have_details"]
                        /\ loc' = [loc EXCEPT
                                      ![r].details = NoResult.value,
                                      ![r].noRecord = @ \cup {loc[r].i}]
                /\ UNCHANGED cache
           ELSE LET d == [t |-> "detail", website |-> out.website,
                          formatted_address |-> <<"formatted", p.place_id>>]
                IN  /\ cache' = SetCache(cache, DetailKey(p.place_id), d,
                                         24 * 3600, clock)
                    /\ pc' = [pc EXCEPT ![r] = "have_details"]
                    /\ loc' = [loc EXCEPT ![r].details = d]
    /\ UNCHANGED <<clock, hostLock, sessions, world, lastSet, done>>

\* the place-details fetch settled in one of the ways the provider allows
DetailsSettled(r) ==
    \E out \in DetailOutcomes(loc[r].i) : DetailsReturns(r, out)

\* const website = (details && details.website) || null; let scraped = null;
HaveDetails(r) ==
    /\ pc[r] = "have_details"
    /\ LET d == loc[r].details
           w == IF d # Null /\ d.website # Null THEN d.website ELSE Null
       IN  /\ pc' = [pc EXCEPT ![r] = IF w # Null THEN "scrape_enter"
                                      ELSE "push"]
           /\ loc' = [loc EXCEPT ![r].website = w, ![r].scraped = Null]
    /\ UNCHANGED <<clock, cache, hostLock, sessions, world, lastSet, done>>

\* scrapeSiteForPrice up to its first await: the cache lookup, then the
\* throttle (skipped when new URL(url) throws), then pRetry(run)
ScrapeEnter(r) ==
    /\ pc[r] = "scrape_enter"
    /\ LET u == loc[r].website.id
           cached == GetCacheValue(cache, ScrapeKey(u), clock)
           base == [loc EXCEPT ![r].attempt = 1, ![r].tries = 0,
                               ![r].fails = 0, ![r].oks = 0,
                               ![r].opened = 0]
       IN  /\ cache' = GetCacheStore(cache, ScrapeKey(u), clock)
           /\ IF cached # Null
              THEN /\ pc' = [pc EXCEPT ![r] = "push"]
                   /\ loc' = [loc EXCEPT ![r].scraped = cached]
                   /\ UNCHANGED <<hostLock, done>>
              ELSE IF ValidUrl(u)
              THEN PoliteEnter(r, HostOf(u), "attempt_start",
                               [base EXCEPT ![r].waited = @ \cup {loc[r].i}])
              ELSE /\ pc' = [pc EXCEPT ![r] = "attempt_start"]
                   /\ loc' = base
                   /\ UNCHANGED <<hostLock, done>>
    /\ UNCHANGED <<clock, sessions, world, lastSet>>

\* run(): chromium.launch(...)
AttemptStart(r) ==
    /\ pc[r] = "attempt_start"
    /\ pc' = [pc EXCEPT ![r] = "launch_wait"]
    /\ loc' = [loc EXCEPT
                  ![r].calls.launch = @ + 1, ![r].tries = @ + 1,
                  ![r].launched = @ \cup {loc[r].i},
                  ![r].launchedLive =
                      @ \/ GetCacheValue(cache, ScrapeKey(loc[r].website.id),
                                         clock) # Null]
    /\ UNCHANGED <<clock, cache, hostLock, sessions, world, lastSet, done>>

\* a scan that lets an exhausted scrape escape to the handler's outer catch
AttemptFailedFatal(r, base) ==
    IF base[r].attempt <= Retries
    THEN /\ pc' = [pc EXCEPT ![r] = "backoff_wait"]
         /\ loc' = [base EXCEPT ![r].fails = @ + 1,
                                ![r].wake = clock + RetryDelay(base[r].attempt)]
    ELSE Fail500(r, "scrape failed", base)

\* run() threw: pRetry schedules the next attempt while retries are left,
\* otherwise scrapeSiteForPrice rejects and scan catches it
AttemptFailed(r, base) ==
    IF base[r].attempt <= Retries
    THEN /\ pc' = [pc EXCEPT ![r] = "backoff_wait"]
         /\ loc' = [base EXCEPT ![r].fails = @ + 1,
                                ![r].wake = clock + RetryDelay(base[r].attempt)]
    ELSE /\ pc' = [pc EXCEPT ![r] = "push"]
         /\ loc' = [base EXCEPT ![r].fails = @ + 1,
                                ![r].scraped = ScrapeFailed,
                                ![r].failedAt = @ \cup {base[r].i}]

\* the session of the running attempt
Session(r) == <<r, loc[r].attempt>>

\* chromium.launch settled
LaunchReturns(r, ok) ==
    /\ ~Busy
    /\ pc[r] = "launch_wait"
    /\ IF ok
       THEN /\ sessions' = sessions \cup {Session(r)}
            /\ pc' = [pc EXCEPT ![r] = "newpage_wait"]
            /\ loc' = [loc EXCEPT ![r].opened = @ + 1]
       ELSE /\ AttemptFailed(r, loc)
            /\ UNCHANGED sessions
    /\ UNCHANGED <<clock, cache, hostLock, world, lastSet, done>>

\* browser.newPage() settled; on success page.goto(url) is called, which is
\* the start of a navigation to the host of a parsable url
NewPageReturns(r, ok) ==
    /\ ~Busy
    /\ pc[r] = "newpage_wait"
    /\ pc' = [pc EXCEPT ![r] = IF ok THEN "goto_wait" ELSE "close_catch_wait"]
    /\ loc' = IF ok /\ ValidUrl(loc[r].website.id)
              THEN [loc EXCEPT ![r].nav =
                       DoneAdd(@, HostOf(loc[r].website.id), clock)]
              ELSE loc
    /\ UNCHANGED <<clock, cache, hostLock, sessions, world, lastSet, done>>

\* page.goto(url) settled; an unparsable URL cannot be navigated to
GotoReturns(r, ok) ==
    /\ ~Busy
    /\ pc[r] = "goto_wait"
    /\ ok => ValidUrl(loc[r].website.id)
    /\ pc' = [pc EXCEPT ![r] = IF ok THEN "content_wait" ELSE "close_catch_wait"]
    /\ UNCHANGED <<clock, cache, hostLock, loc, sessions, world, lastSet, done>>

\* page.content() settled: extraction, setCache, then browser.close() is called
ContentReturns(r, out) ==
    /\ ~Busy
    /\ pc[r] = "content_wait"
    /\ IF out = "fail"
       THEN /\ pc' = [pc EXCEPT ![r] = "close_catch_wait"]
            /\ UNCHANGED <<cache, loc>>
       ELSE LET u == loc[r].website.id
                res == PageResult(out, u)
            IN  /\ cache' = SetCache(cache, ScrapeKey(u), res, 12 * 3600, clock)
                /\ pc' = [pc EXCEPT ![r] = "close_wait"]
                /\ loc' = [loc EXCEPT ![r].result = res]
    /\ UNCHANGED <<clock, hostLock, sessions, world, lastSet, done>>

\* browser.close() of the success path settled: run returns the result, or
\* the rejection of close() lands in the catch block
CloseReturns(r, ok) ==
    /\ ~Busy
    /\ pc[r] = "close_wait"
    /\ sessions' = CloseSession(sessions, Session(r))
    /\ IF ok
       THEN /\ pc' = [pc EXCEPT ![r] = "push"]
            /\ loc' = [loc EXCEPT ![r].scraped = loc[r].result,
                                  ![r].oks = @ + 1]
       ELSE /\ pc' = [pc EXCEPT ![r] = "close_catch_wait"]
            /\ UNCHANGED loc
    /\ UNCHANGED <<clock, cache, hostLock, world, lastSet, done>>

\* browser.close() of the catch block settled (its own failure is swallowed):
\* throw err
CloseCatchReturns(r, ok) ==
    /\ ~Busy
    /\ pc[r] = "close_catch_wait"
    /\ sessions' = CatchClose(sessions, Session(r))
    /\ AttemptFailed(r, loc)
    /\ UNCHANGED <<clock, cache, hostLock, world, lastSet, done>>

\* the retry timer of pRetry fired
BackoffFires(r) ==
    /\ ~Busy
    /\ pc[r] = "backoff_wait"
    /\ clock >= loc[r].wake
    /\ pc' = [pc EXCEPT ![r] = "attempt_start"]
    /\ loc' = [loc EXCEPT ![r].attempt = @ + 1, ![r].wake = -1]
    /\ UNCHANGED <<clock, cache, hostLock, sessions, world, lastSet, done>>

\* results.push({...}) of a candidate whose detail lookup did not throw
Push(r) ==
    /\ pc[r] = "push"
    /\ LET p == Slice(loc[r].places)[loc[r].i]
       IN  loc' = [loc EXCEPT
                     ![r].results = Append(@, Entry(p, loc[r].details,
                                                    loc[r].website,
                                                    loc[r].scraped)),
                     ![r].i = @ + 1, ![r].nav = Empty,
                     ![r].launchedLive = FALSE]
    /\ pc' = [pc EXCEPT ![r] = "loop"]
    /\ UNCHANGED <<clock, cache, hostLock, sessions, world, lastSet, done>>

----------------------------------------------------------------------------
(* Two scrapeSiteForPrice calls in flight at once *)

\* the page the calls ask for
ScrapeUrls == {1}

\* the requests arrive when the idle horizon is over; each makes one call
InitScrape ==
    /\ InitMaps
    /\ clock = MaxClock
    /\ world = NoWorld
    /\ pc = [r \in Procs |-> "scrape_idle"]
    /\ loc = [r \in Procs |-> LocInit]

\* scraped = await scrapeSiteForPrice(website), reached by a request
ScrapeCall(r, u) ==
    /\ ~Busy
    /\ pc[r] = "scrape_idle"
    /\ pc' = [pc EXCEPT ![r] = "scrape_enter"]
    /\ loc' = [loc EXCEPT ![r].website = Url(u)]
    /\ UNCHANGED <<clock, cache, hostLock, sessions, world, lastSet, done>>

\* the call returned its result, or threw, to the request that made it
ScrapeReturns(r) ==
    /\ pc[r] = "push"
    /\ pc' = [pc EXCEPT ![r] = "scrape_done"]
    /\ UNCHANGED <<clock, cache, hostLock, loc, sessions, world, lastSet, done>>

NextScrape ==
    \/ \E r \in Procs, u \in ScrapeUrls : ScrapeCall(r, u)
    \/ \E r \in Procs : ScrapeEnter(r)
    \/ \E r \in Procs : PoliteWake(r)
    \/ \E r \in Procs : AttemptStart(r)
    \/ \E r \in Procs : LaunchReturns(r, TRUE)
    \/ \E r \in Procs : NewPageReturns(r, TRUE)
    \/ \E r \in Procs, ok \in BOOLEAN : GotoReturns(r, ok)
    \/ \E r \in Procs : ContentReturns(r, "priced")
    \/ \E r \in Procs, ok \in BOOLEAN : CloseReturns(r, ok)
    \/ \E r \in Procs : CloseCatchReturns(r, TRUE)
    \/ \E r \in Procs : BackoffFires(r)
    \/ \E r \in Procs : ScrapeReturns(r)
    \/ Tick

SpecScrape == InitScrape /\ [][NextScrape]_vars

\* C18 (as claimed): no browser is launched for a URL while the cache holds
\* an unexpired entry for that URL, also when several scrapeSiteForPrice
\* calls for the URL are in flight at once.
C18_NoLaunchWhileCached ==
    \A r \in Procs : ~loc[r].launchedLive

----------------------------------------------------------------------------
(* One scan request on a fresh process *)

\* short provider lists, where every external call may fail
MaxPlaces == 2

\* the longest provider list, beyond the cap of the scan
MaxListed == 22

ScanLoc(a) ==
    [r \in Procs |-> IF r = 1 THEN [LocInit EXCEPT !.address = a] ELSE LocInit]

\* The request arrives when the idle horizon is over: from there on time
\* advances only by the timers of the throttle and of the retries.  The
\* provider holds either a short list, every lookup of which may fail (the
\* request's address varies for lists of at most one place), or a list as
\* long as the cap or longer, with at most one candidate whose lookups may
\* fail or lead to a website.
Init ==
    /\ InitMaps
    /\ pc = [r \in Procs |-> IF r = 1 THEN "scan_idle" ELSE "off"]
    /\ clock = MaxClock
    /\ \/ \E n \in 0..MaxPlaces, a \in RequestAddresses :
             /\ n > 1 => a = Str(AddrCoord)
             /\ world = [places |-> ProviderList(n), faulty |-> 1..n]
             /\ loc = ScanLoc(a)
       \/ /\ \E n \in ScanLimit..MaxListed :
                \E f \in 0..n :
                    world = [places |-> ProviderList(n),
                             faulty |-> {f} \ {0}]
          /\ loc = ScanLoc(Str(AddrCoord))

Next ==
    \/ \E r \in Procs : ScanStart(r)
    \/ \E r \in Procs, out \in {"reject", "zero", "ok"} : GeocodeReturns(r, out)
    \/ \E r \in Procs : NearbyLookup(r)
    \/ \E r \in Procs, out \in {"reject", "malformed", "ok"} : NearbyReturns(r, out)
    \/ \E r \in Procs : Loop(r)
    \/ \E r \in Procs : DetailsSettled(r)
    \/ \E r \in Procs : HaveDetails(r)
    \/ \E r \in Procs : ScrapeEnter(r)
    \/ \E r \in Procs : PoliteWake(r)
    \/ \E r \in Procs : AttemptStart(r)
    \/ \E r \in Procs, ok \in BOOLEAN : LaunchReturns(r, ok)
    \/ \E r \in Procs, ok \in BOOLEAN : NewPageReturns(r, ok)
    \/ \E r \in Procs, ok \in BOOLEAN : GotoReturns(r, ok)
    \/ \E r \in Procs, out \in {"fail", "priced", "blank"} : ContentReturns(r, out)
    \/ \E r \in Procs, ok \in BOOLEAN : CloseReturns(r, ok)
    \/ \E r \in Procs, ok \in BOOLEAN : CloseCatchReturns(r, ok)
    \/ \E r \in Procs : BackoffFires(r)
    \/ \E r \in Procs : Push(r)
    \/ Tick

Spec == Init /\ [][Next]_vars

\* the steps of request r: its synchronous code, and the settling of the
\* external call or timer it awaits
ScanStep(r) ==
    \/ ScanStart(r)
    \/ \E out \in {"reject", "zero", "ok"} : GeocodeReturns(r, out)
    \/ NearbyLookup(r)
    \/ \E out \in {"reject", "malformed", "ok"} : NearbyReturns(r, out)
    \/ Loop(r)
    \/ DetailsSettled(r)
    \/ HaveDetails(r)
    \/ ScrapeEnter(r)
    \/ PoliteWake(r)
    \/ AttemptStart(r)
    \/ \E ok \in BOOLEAN : LaunchReturns(r, ok)
    \/ \E ok \in BOOLEAN : NewPageReturns(r, ok)
    \/ \E ok \in BOOLEAN : GotoReturns(r, ok)
    \/ \E out \in {"fail", "priced", "blank"} : ContentReturns(r, out)
    \/ \E ok \in BOOLEAN : CloseReturns(r, ok)
    \/ \E ok \in BOOLEAN : CloseCatchReturns(r, ok)
    \/ BackoffFires(r)
    \/ Push(r)

\* a request with a coordinate pair or a free-form address, where the
\* provider holds a short list; every lookup of its first two candidates
\* may fail
InitLive ==
    /\ InitMaps
    /\ pc = [r \in Procs |-> IF r = 1 THEN "scan_idle" ELSE "off"]
    /\ clock = MaxClock
    /\ \E n \in 0..MaxPlaces, a \in {Str(AddrCoord), Str(AddrText)} :
          /\ n > 1 => a = Str(AddrCoord)
          /\ world = [places |-> ProviderList(n),
                      faulty |-> 1..Min({n, 2})]
          /\ loc = ScanLoc(a)

\* The event loop runs whatever is runnable, time passes, and every external
\* call eventually settles one way or the other.
SpecLive ==
    /\ InitLive
    /\ [][Next]_vars
    /\ WF_vars(Tick)
    /\ \A r \in Procs : WF_vars(ScanStep(r))

\* C19: every scan request that supplies an address eventually sends a
\* response, and only one, provided every external call eventually settles;
\* once the nearby search has answered, the response is a competitor list
\* with an entry for every candidate of the capped list, whatever failed for
\* single candidates.
C19_ScanResponds ==
    /\ \A r \in Procs :
          (pc[r] = "scan_idle" /\ loc[r].address.t = "str"
              /\ loc[r].address.s # <<>>)
            ~> (pc[r] = "scan_done" /\ loc[r].resp # Null)
    /\ \A r \in Procs :
          (pc[r] = "loop")
            ~> (/\ pc[r] = "scan_done"
                /\ loc[r].resp.status = 200
                /\ Len(loc[r].resp.body.competitors)
                      = Len(Slice(loc[r].places)))
    /\ [][\A r \in Procs :
            pc[r] = "scan_done" =>
                (pc'[r] = "scan_done" /\ loc'[r].resp = loc[r].resp)]_vars

\* a scan answered with both candidates although the scrape of the first
\* failed on every attempt and the detail lookup of the second was rejected
C19_Witness ==
    /\ pc[1] = "scan_done" /\ loc[1].resp.status = 200
    /\ loc[1].failedAt = {1}
    /\ Len(loc[1].resp.body.competitors) = 2
    /\ "error" \in DOMAIN loc[1].resp.body.competitors[2]

\* C20 (as claimed): cache entries are written only by attempts that
\* succeed: between the failed attempts of a scrapeSiteForPrice call, and
\* after the call failed with its retries exhausted, the cache holds no
\* entry for the URL.  (The cache is empty when the request arrives, and a
\* call that finds an entry makes no attempt, so an entry present then was
\* written by a failed attempt of this call.)
C20_FailedAttemptsWriteNothing ==
    \A r \in Procs :
        (\/ pc[r] = "backoff_wait"
         \/ pc[r] = "push" /\ loc[r].scraped = ScrapeFailed)
        => ScrapeKey(loc[r].website.id) \notin DOMAIN cache

\* C1 (as claimed): when exactly one candidate's scrape fails on every
\* attempt, the entry returned for that candidate carries an error field and
\* the entries of the other candidates are populated normally.
C1_FailedScrapeHasError ==
    \A r \in Procs :
        (/\ pc[r] = "scan_done" /\ loc[r].resp.status = 200
         /\ Cardinality(loc[r].failedAt) = 1)
        => \A k \in 1..Len(loc[r].resp.body.competitors) :
              LET e == loc[r].resp.body.competitors[k]
              IN  IF k \in loc[r].failedAt
                  THEN "error" \in DOMAIN e
                  ELSE "price" \in DOMAIN e \/ "error" \in DOMAIN e

\* C4: a scan whose nearby search returned N candidates answers with
\* min(N, 20) entries, entry k being the entry of the k-th candidate of the
\* provider's list, whichever detail lookups or scrapes failed.
C4_CappedInOrder ==
    \A r \in Procs :
        (pc[r] = "scan_done" /\ loc[r].resp.status = 200) =>
            LET out == loc[r].resp.body.competitors
                n == Len(world.places)
            IN  /\ Len(out) = IF n < 20 THEN n ELSE 20
                /\ \A k \in 1..Len(out) : out[k].name = world.places[k].name

\* a scan over 22 candidates answered with 20 entries, one of them an inline
\* error
C4_Witness ==
    /\ pc[1] = "scan_done" /\ loc[1].resp.status = 200
    /\ Len(world.places) > 20
    /\ Len(loc[1].resp.body.competitors) = 20
    /\ \E k \in 1..20 : "error" \in DOMAIN loc[1].resp.body.competitors[k]

\* t is an optional minus sign, digits, a point and digits
IsDecimal(t) ==
    LET u == IF t # <<>> /\ t[1] = "-" THEN Tail(t) ELSE t
    IN  \E k \in 2..(Len(u) - 1) :
            /\ u[k] = "."
            /\ \A j \in (1..Len(u)) \ {k} : IsDigit(u[j])

\* s is two such decimals separated by one comma
StrictLatLng(s) ==
    \E c \in 1..Len(s) :
        /\ s[c] = ","
        /\ IsDecimal(SubSeq(s, 1, c - 1))
        /\ IsDecimal(SubSeq(s, c + 1, Len(s)))

\* C12: placesNearby issues no geocoding request when its input matches the
\* strict "lat,lng" pattern and exactly one otherwise; the nearby search
\* uses the numbers parsed from the input in the first case ("1.5,-2.25" is
\* 1.5 and -2.25) and the provider's first geocoding result in the second.
C12_GeocodeOnlyForAddresses ==
    \A r \in Procs :
        (pc[r] \notin {"off", "scan_idle"} /\ loc[r].address.t = "str"
         /\ loc[r].address.s # <<>>)
        => IF StrictLatLng(loc[r].address.s)
           THEN /\ loc[r].calls.geocode = 0
                /\ pc[r] # "geocode_wait"
                /\ pc[r] # "nearby_lookup" =>
                      /\ loc[r].near # Null
                      /\ loc[r].address.s = AddrCoord =>
                            loc[r].near = [lat |-> Frac(3, 2),
                                           lng |-> Frac(-9, 4)]
           ELSE /\ loc[r].calls.geocode = 1
                /\ loc[r].near # Null =>
                      loc[r].geo = "ok" /\ loc[r].near = GeoLoc

\* the address "40,-75" has no decimal point: it was geocoded, once, and
\* the nearby search was issued for the geocoded coordinate
C12_Witness ==
    /\ loc[1].address = Str(AddrInts)
    /\ loc[1].calls.geocode = 1
    /\ loc[1].calls.nearby = 1
    /\ loc[1].near = GeoLoc

\* C13: when the place-details provider has no record for a candidate, the
\* entry of that candidate is a normal competitor record with website null
\* and source 'places' and without an error field, and neither a throttle
\* wait nor a browser launch happens for that candidate.
C13_MissingDetailIsNoWebsite ==
    \A r \in Procs :
        \A k \in loc[r].noRecord :
            /\ k \notin loc[r].waited
            /\ k \notin loc[r].launched
            /\ k <= Len(loc[r].results) =>
                  LET e == loc[r].results[k]
                  IN  /\ "error" \notin DOMAIN e
                      /\ {"name", "address", "place_id", "website", "unit",
                           "price", "source"} \subseteq DOMAIN e
                      /\ e.name = world.places[k].name
                      /\ e.website = Null
                      /\ e.source = "places"
            /\ (pc[r] = "scan_done" /\ loc[r].resp.status = 200) =>
                  loc[r].resp.body.competitors[k] = loc[r].results[k]

\* a scan answered with the record of a candidate the details provider did
\* not know, after another candidate's website had been waited for and
\* launched
C13_Witness ==
    /\ pc[1] = "scan_done" /\ loc[1].resp.status = 200
    /\ 2 \in loc[1].noRecord
    /\ 1 \in loc[1].waited \cap loc[1].launched
    /\ loc[1].resp.body.competitors[2].source = "places"

\* C16 (as claimed): every navigation to a host, the retry attempts of one
\* scrapeSiteForPrice call included, starts at least 2000 ms after the
\* previous navigation to the same host.  The history nav holds the
\* navigations of the scrapeSiteForPrice call in progress.
C16_NavigationsSpaced ==
    \A r \in Procs :
        \A h \in DOMAIN loc[r].nav :
            loc[r].nav[h].prev >= 0 =>
                loc[r].nav[h].last - loc[r].nav[h].prev >= gap

\* C6: a scan whose address is no coordinate pair and whose geocoding call
\* returned zero results ends with an error response without a competitor
\* list, and issues no nearby-search, place-details or browser call.
C6_GeocodeFailureIsFatal ==
    \A r \in Procs :
        loc[r].geo = "zero" =>
            /\ pc[r] = "scan_done"
            /\ loc[r].resp.status >= 400
            /\ "error" \in DOMAIN loc[r].resp.body
            /\ "competitors" \notin DOMAIN loc[r].resp.body
            /\ loc[r].calls.nearby = 0
            /\ loc[r].calls.details = 0
            /\ loc[r].calls.launch = 0
            /\ sessions = {}

\* the geocoding of a free-form address returned zero results
C6_Witness ==
    /\ loc[1].geo = "zero"
    /\ ~IsLatLng(loc[1].address.s)
    /\ loc[1].calls.geocode = 1
    /\ pc[1] = "scan_done"

\* the positions of one attempt of run, and of a scrape between attempts
AttemptPcs == {"launch_wait", "newpage_wait", "goto_wait", "content_wait",
               "close_wait", "close_catch_wait"}

\* C7: one scrapeSiteForPrice call on a cache miss makes at most 3 attempts,
\* none after an attempt succeeded, and fails towards its caller only after
\* the third consecutive failed attempt.
C7_AtMostThreeAttempts ==
    \A r \in Procs :
        /\ loc[r].tries <= 3
        /\ loc[r].oks <= 1
        /\ loc[r].oks = 1 =>
              pc[r] \notin AttemptPcs \cup {"attempt_start", "backoff_wait"}
        /\ loc[r].scraped = ScrapeFailed =>
              loc[r].tries = 3 /\ loc[r].fails = 3 /\ loc[r].oks = 0

\* a scrape failed towards the scan after three failed attempts, and another
\* one succeeded on a retry
C7_Witness ==
    /\ loc[1].scraped = ScrapeFailed
    /\ loc[1].tries = 3
    /\ \E k \in 1..Len(loc[1].results) :
          /\ "price" \in DOMAIN loc[1].results[k]
          /\ loc[1].results[k].price = Num(89)

====
